---- MODULE Spec2Model ----
(***************************************************************************)
(* Model of the sudoers defaults callbacks (plugins/sudoers/callbacks.c),  *)
(* the host name bootstrap of the auxiliary tools (stubs.c) and the I/O    *)
(* log path escapes (iolog_path_escapes.c).                                *)
(*                                                                         *)
(* Host strings live in a heap of blocks; user_ctx and runas_ctx hold      *)
(* pointers (block numbers) into it, so aliasing, double frees, leaks and  *)
(* dangling pointers are visible in the state.                             *)
(***************************************************************************)
EXTENDS Integers, Sequences, FiniteSets, TLC

VARIABLES pc, heap, user_ctx, runas_ctx, heapErr, last, ncalls,
          def_logfile, def_syslog, evlog_type, evlog_type_set, evlog_logpath,
          evlog_format, def_timestamp_type, override_umask, lastcb,
          passwd, ts_owner, lastOwner,
          sessid, seqfile, issued, nalloc, lastFill,
          esc_ctx, group_db, lastExpand,
          def_intercept_allow_setid, user_ctx_flags, lastIntercept, nintercept,
          user_ctx_cmnd, collab_calls, def_log, lastPlain

hostVars == <<pc, heap, user_ctx, runas_ctx, heapErr, last, ncalls>>
logVars == <<def_logfile, def_syslog, evlog_type, evlog_type_set, evlog_logpath,
             evlog_format, def_timestamp_type, override_umask, lastcb>>
ownerVars == <<passwd, ts_owner, lastOwner>>
seqVars == <<sessid, seqfile, issued, nalloc, lastFill>>
escVars == <<esc_ctx, group_db, lastExpand>>
interceptVars == <<def_intercept_allow_setid, user_ctx_flags, lastIntercept, nintercept>>
plainVars == <<user_ctx_cmnd, collab_calls, def_log, lastPlain>>
restVars == <<ownerVars, seqVars, escVars, interceptVars, plainVars>>
vars == <<pc, heap, user_ctx, runas_ctx, heapErr, last, ncalls,
          def_logfile, def_syslog, evlog_type, evlog_type_set, evlog_logpath,
          evlog_format, def_timestamp_type, override_umask, lastcb,
          passwd, ts_owner, lastOwner,
          sessid, seqfile, issued, nalloc, lastFill,
          esc_ctx, group_db, lastExpand,
          def_intercept_allow_setid, user_ctx_flags, lastIntercept, nintercept,
          user_ctx_cmnd, collab_calls, def_log, lastPlain>>

(***************************************************************************)
(* Bounds.                                                                 *)
(***************************************************************************)
\* Longest host name the name service or the kernel hands out.
MaxLen == 2
\* Number of heap blocks the allocator can hand out.
NBlocks == 6
\* Number of cb_fqdn() invocations followed in one run.
MaxCalls == 2
\* Largest syslog facility value the syslog directive takes.
MaxFacility == 2

\* The null pointer.
NULL == 0

Blocks == 1..NBlocks

\* Characters of a host name: a letter and the domain separator.
HostChars == {"a", "."}

\* The string terminator, written into a buffer by get_hostname().
NUL == "nul"

RECURSIVE SeqsOfLen(_)
SeqsOfLen(n) ==
    IF n = 0 THEN {<<>>}
    ELSE {Append(s, c) : s \in SeqsOfLen(n - 1), c \in HostChars}

\* Every non-empty host name of at most MaxLen characters.
Names == UNION {SeqsOfLen(n) : n \in 1..MaxLen}

\* The literal of stubs.c line 132.
Localhost == <<"l", "o", "c", "a", "l", "h", "o", "s", "t">>

Min(S) == CHOOSE x \in S : \A y \in S : x <= y

(***************************************************************************)
(* C strings.                                                              *)
(***************************************************************************)
\* strchr(s, c): 1-based index of the first c in the buffer s before its
\* terminator, 0 when there is none.
RECURSIVE strchrFrom(_, _, _)
strchrFrom(s, c, i) ==
    IF i > Len(s) THEN 0
    ELSE IF s[i] = NUL THEN 0
    ELSE IF s[i] = c THEN i
    ELSE strchrFrom(s, c, i + 1)

strchr(s, c) == strchrFrom(s, c, 1)

\* The C string held in buffer s: the characters before the first NUL.
RECURSIVE CStrFrom(_, _)
CStrFrom(s, i) ==
    IF i > Len(s) THEN <<>>
    ELSE IF s[i] = NUL THEN <<>>
    ELSE <<s[i]>> \o CStrFrom(s, i + 1)

CStr(s) == CStrFrom(s, 1)

\* strndup(s, n): the first n characters of s (fewer if s is shorter).
strndup(s, n) == SubSeq(CStr(s), 1, IF n < Len(CStr(s)) THEN n ELSE Len(CStr(s)))

\* The buffer s with character i overwritten by c (*cp = c).
Poke(s, i, c) == [s EXCEPT ![i] = c]

(***************************************************************************)
(* The heap.  A machine state m is [heap, user, runas, err]: the blocks,   *)
(* the two contexts' host pointers and the heap errors met so far.         *)
(***************************************************************************)
EmptyBlock == [live |-> FALSE, str |-> <<>>]

Machine == [heap |-> heap, user |-> user_ctx, runas |-> runas_ctx, err |-> heapErr]

Live(m, p) == p # NULL /\ m.heap[p].live

\* Pointers held by the two contexts.
Refs(m) == {m.user.host, m.user.shost, m.runas.host, m.runas.shost} \ {NULL}

FreeBlocks(m) == {b \in Blocks : ~m.heap[b].live}

\* The blocks malloc() may return: any free block a context still points at
\* (a dangling pointer's block may be reused) and one free block nobody
\* points at (those are interchangeable).
AllocCandidates(m) ==
    (FreeBlocks(m) \cap Refs(m)) \cup
    (IF FreeBlocks(m) \ Refs(m) # {} THEN {Min(FreeBlocks(m) \ Refs(m))} ELSE {})

\* malloc + copy of string s: the outcomes [m, p]; p = NULL when it fails.
Alloc(m, s) ==
    {[m |-> m, p |-> NULL]} \cup
    {[m |-> [m EXCEPT !.heap[b] = [live |-> TRUE, str |-> s]], p |-> b] :
        b \in AllocCandidates(m)}

\* free(p).  Freeing a block that is not allocated is a double free.
Free(m, p) ==
    IF p = NULL THEN m
    ELSE IF m.heap[p].live THEN [m EXCEPT !.heap[p] = EmptyBlock]
    ELSE [m EXCEPT !.err = @ \cup {"double_free"}]

\* The strings a read through p can see: the block's string, or anything
\* at all when the block has been freed.
ReadChoices(m, p) == IF Live(m, p) THEN {CStr(m.heap[p].str)} ELSE Names

\* The machine after a read through p: reading freed storage is an error.
ReadMark(m, p) ==
    IF Live(m, p) THEN m ELSE [m EXCEPT !.err = @ \cup {"use_after_free"}]

(***************************************************************************)
(* Addresses carry no meaning: two heaps that differ only in which block   *)
(* number holds what are the same heap.  States are kept with the blocks   *)
(* numbered in the order the contexts point at them.                       *)
(***************************************************************************)
RECURSIVE Dedup(_)
Dedup(s) ==
    IF s = <<>> THEN <<>>
    ELSE LET r == Dedup(SubSeq(s, 1, Len(s) - 1))
             x == s[Len(s)]
         IN  IF x = NULL \/ \E i \in 1..Len(r) : r[i] = x THEN r ELSE Append(r, x)

RECURSIVE Ascending(_)
Ascending(S) == IF S = {} THEN <<>> ELSE <<Min(S)>> \o Ascending(S \ {Min(S)})

BlockOrder(m) ==
    LET refs == Dedup(<<m.user.host, m.user.shost, m.runas.host, m.runas.shost>>)
    IN  refs \o Ascending(Blocks \ {refs[i] : i \in 1..Len(refs)})

Renamed(order, p) == IF p = NULL THEN NULL ELSE CHOOSE i \in Blocks : order[i] = p

Normalize(m) ==
    LET order == BlockOrder(m)
    IN  [heap |-> [i \in Blocks |-> m.heap[order[i]]],
         user |-> [host |-> Renamed(order, m.user.host),
                   shost |-> Renamed(order, m.user.shost)],
         runas |-> [host |-> Renamed(order, m.runas.host),
                    shost |-> Renamed(order, m.runas.shost)],
         err |-> m.err]

NormalizeCalls(m, calls) ==
    LET order == BlockOrder(m)
    IN  [i \in 1..Len(calls) |->
            [calls[i] EXCEPT !.lp = Renamed(order, @), !.sp = Renamed(order, @)]]

(***************************************************************************)
(* The record of the last operation, kept for the properties: the          *)
(* operation, its directive value, the remote flag it computed, its        *)
(* return value, the resolve_host() calls it made, the outcome of the      *)
(* duplication of step 5 and the name the kernel reported.                 *)
(***************************************************************************)
NoKept == [user |-> TRUE, runas |-> TRUE, heap |-> TRUE, runasText |-> TRUE]

NoOp == [op |-> "none", sd |-> "null", same |-> FALSE, remote |-> FALSE,
         ret |-> "none", calls |-> <<>>, dup |-> "none", name |-> <<>>,
         kept |-> NoKept]

\* What an operation left alone, from the machine before it to the machine
\* after it: the user context's pointers, the runas context's pointers, the
\* heap, the storage the runas context pointed at.
Kept(m0, m1) ==
    [user |-> m1.user = m0.user, runas |-> m1.runas = m0.runas,
     heap |-> m1.heap = m0.heap,
     runasText |-> \A p \in {m0.runas.host, m0.runas.shost} \ {NULL} :
                      m1.heap[p] = m0.heap[p]]

(***************************************************************************)
(* get_hostname(), stubs.c.                                                *)
(***************************************************************************)
\* Lines 123-130: derive shost from the host buffer at block h.
\* Outcomes [m, fatal]; get_hostname() adds the name it settled on.
HostnameShort(m, h) ==
    LET buf == m.heap[h].str
        cp == strchr(buf, ".")
    IN  IF cp # 0
        THEN LET cut == [m EXCEPT !.heap[h].str = Poke(buf, cp, NUL)]
             IN  {IF a.p = NULL
                  THEN [m |-> a.m, fatal |-> TRUE]
                  ELSE [m |-> [a.m EXCEPT !.heap[h].str = Poke(@, cp, "."),
                                          !.user = [host |-> h, shost |-> a.p]],
                        fatal |-> FALSE] :
                      a \in Alloc(cut, CStr(cut.heap[h].str))}
        ELSE {[m |-> [m EXCEPT !.user = [host |-> h, shost |-> h]],
               fatal |-> FALSE]}

\* Lines 131-135: no host name, fall back to "localhost".
HostnameFallback(m) ==
    {IF a.p = NULL
     THEN [m |-> a.m, fatal |-> TRUE]
     ELSE [m |-> [a.m EXCEPT !.user = [host |-> a.p, shost |-> a.p]],
           fatal |-> FALSE] :
         a \in Alloc(m, Localhost)}

\* Lines 136-137: the runas context takes the user context's pointers.
HostnameRunas(m) ==
    [m EXCEPT !.runas = [host |-> m.user.host, shost |-> m.user.shost]]

\* The whole function, for the name the kernel reports.  sudo_gethostname()
\* returns the name in a fresh block, or NULL.
get_hostname(m, name) ==
    LET got == UNION {IF g.p # NULL
                      THEN {[m |-> o.m, fatal |-> o.fatal, name |-> name] :
                               o \in HostnameShort(g.m, g.p)}
                      ELSE {[m |-> o.m, fatal |-> o.fatal, name |-> Localhost] :
                               o \in HostnameFallback(g.m)} :
                         g \in Alloc(m, name)}
    IN  {IF o.fatal THEN o ELSE [o EXCEPT !.m = HostnameRunas(o.m)] : o \in got}

GetHostname ==
    /\ pc = "start"
    /\ \E name \in Names : \E o \in get_hostname(Machine, name) :
        /\ pc' = IF o.fatal THEN "exited" ELSE "hostname"
        /\ heap' = Normalize(o.m).heap
        /\ user_ctx' = Normalize(o.m).user
        /\ runas_ctx' = Normalize(o.m).runas
        /\ heapErr' = o.m.err
        /\ last' = [NoOp EXCEPT !.op = "get_hostname", !.name = o.name,
                                !.ret = IF o.fatal THEN "fatal" ELSE "void"]
    /\ UNCHANGED <<ncalls, logVars, restVars>>

(***************************************************************************)
(* The -h override of the front end: the target host is a name of its own, *)
(* held in storage of its own.                                             *)
(***************************************************************************)
set_remote_host(m, name) ==
    LET dot == strchr(name, ".")
    IN  UNION {IF a.p = NULL THEN {[m |-> a.m, fatal |-> TRUE]}
               ELSE IF dot = 0
               THEN {[m |-> [a.m EXCEPT !.runas = [host |-> a.p, shost |-> a.p]],
                      fatal |-> FALSE]}
               ELSE {IF b.p = NULL THEN [m |-> b.m, fatal |-> TRUE]
                     ELSE [m |-> [b.m EXCEPT !.runas = [host |-> a.p, shost |-> b.p]],
                           fatal |-> FALSE] :
                         b \in Alloc(a.m, strndup(name, dot - 1))} :
                 a \in Alloc(m, name)}

SetRemoteHost ==
    /\ pc = "hostname"
    /\ \E name \in Names : \E o \in set_remote_host(Machine, name) :
        /\ pc' = IF o.fatal THEN "exited" ELSE "returned"
        /\ heap' = Normalize(o.m).heap
        /\ user_ctx' = Normalize(o.m).user
        /\ runas_ctx' = Normalize(o.m).runas
        /\ heapErr' = o.m.err
        /\ last' = [NoOp EXCEPT !.op = "set_remote_host", !.name = name,
                                !.ret = IF o.fatal THEN "fatal" ELSE "void"]
    /\ UNCHANGED <<ncalls, logVars, restVars>>

(***************************************************************************)
(* resolve_host(), callbacks.c lines 61-94.  getaddrinfo() either fails or *)
(* hands back a canonical name; the outcomes are [m, rc, lp, sp, canon].   *)
(***************************************************************************)
ResolveFailure(m, rc) ==
    [m |-> m, rc |-> rc, lp |-> NULL, sp |-> NULL, canon |-> <<>>]

\* Mutant: the short name takes the '.' along.
ShortLenMut(cp) == cp

\* Line 80: cp - lname, the number of characters before the character at
\* (1-based) index cp.
ShortLen(cp) == cp - 1

\* Mutant: the long name is not given back.
ResolveNoMemoryMut(m, l) == ResolveFailure(m, "EAI_MEMORY")

\* Lines 81-85: no memory for the short name, give the long name back.
ResolveNoMemory(m, l) == ResolveFailure(Free(m, l), "EAI_MEMORY")

\* Lines 79-88: the short name of the long name at block l.
ResolveShort(m, l, canon) ==
    LET cp == strchr(m.heap[l].str, ".")
    IN  IF cp # 0
        THEN {IF b.p = NULL
              THEN ResolveNoMemory(b.m, l)
              ELSE [m |-> b.m, rc |-> "ok", lp |-> l, sp |-> b.p, canon |-> canon] :
                  b \in Alloc(m, strndup(m.heap[l].str, ShortLen(cp)))}
        ELSE {[m |-> m, rc |-> "ok", lp |-> l, sp |-> l, canon |-> canon]}

\* Lines 75-93: getaddrinfo() succeeded with the canonical name canon.
ResolveFound(m, canon) ==
    UNION {IF a.p = NULL THEN {ResolveFailure(a.m, "EAI_MEMORY")}
           ELSE ResolveShort(a.m, a.p, canon) : a \in Alloc(m, canon)}

resolve_host(m) ==
    {ResolveFailure(m, "EAI_FAIL")} \cup UNION {ResolveFound(m, c) : c \in Names}

\* What a resolve_host() call looked like when it returned: its result and
\* the text of the two strings it handed back.
CallRecord(who, o) ==
    [who |-> who, rc |-> o.rc, canon |-> o.canon, lp |-> o.lp, sp |-> o.sp,
     ltxt |-> IF o.rc = "ok" THEN CStr(o.m.heap[o.lp].str) ELSE <<>>,
     stxt |-> IF o.rc = "ok" THEN CStr(o.m.heap[o.sp].str) ELSE <<>>]

(***************************************************************************)
(* cb_fqdn(), callbacks.c lines 100-166.  One invocation carries a record  *)
(* c = [sd_un, same, remote, calls]: the directive value, whether strcmp() *)
(* saw equal names, the remote flag and the resolve_host() calls so far.   *)
(***************************************************************************)
\* The function returns ret from machine state m (or the process dies
\* there, ret = "crash").
FqdnReturn(c, m, ret, dup) ==
    LET n == Normalize(m)
    IN  /\ pc' = IF ret = "crash" THEN "crashed" ELSE "returned"
        /\ heap' = n.heap
        /\ user_ctx' = n.user
        /\ runas_ctx' = n.runas
        /\ heapErr' = m.err
        /\ last' = [NoOp EXCEPT !.op = "cb_fqdn", !.sd = c.sd_un, !.same = c.same,
                                !.remote = c.remote, !.ret = ret,
                                !.calls = NormalizeCalls(m, c.calls),
                                !.dup = dup, !.kept = Kept(Machine, m)]
        /\ ncalls' = ncalls + 1
        /\ UNCHANGED <<logVars, restVars>>

\* A heap error met between machine states m0 and m1 may go unnoticed or
\* end the process on the spot.
CrashChoices(m0, m1) == IF m1.err # m0.err THEN {TRUE, FALSE} ELSE {FALSE}

\* Mutant: the test of the flag is inverted.
FqdnDisabledMut(sd_un) == sd_un # "null" /\ sd_un = "on"

\* Line 110: nothing to do if the fqdn flag is disabled.
FqdnDisabled(sd_un) == sd_un # "null" /\ sd_un = "off"

\* Lines 124-126 and 155-157: release a context's host strings.
ReleaseHosts(m, ctx) ==
    LET m1 == IF ctx.shost # ctx.host THEN Free(m, ctx.shost) ELSE m
    IN  Free(m1, ctx.host)

\* Mutant: the two names are installed the wrong way round.
InstalledPairMut(lhost, shost) == [host |-> shost, shost |-> lhost]

\* Lines 127-128 and 158-159: the pair a context is given.
InstalledPair(lhost, shost) == [host |-> lhost, shost |-> shost]

\* Lines 154-165: install the target's pair and return true.
FqdnInstallRunas(c, m, dup, lhost, shost) ==
    IF lhost # NULL /\ shost # NULL
    THEN LET m1 == ReleaseHosts(m, m.runas)
             m2 == [m1 EXCEPT !.runas = InstalledPair(lhost, shost)]
         IN  \E crash \in CrashChoices(m, m1) :
                IF crash THEN FqdnReturn(c, m1, "crash", dup)
                ELSE FqdnReturn(c, m2, "true", dup)
    ELSE FqdnReturn(c, m, "true", dup)

\* Lines 140-145: duplicate the user context's pair.  Outcomes [m, lhost, shost].
DupHosts(m) ==
    UNION {UNION {
        IF a.p = NULL THEN {[m |-> a.m, lhost |-> NULL, shost |-> NULL]}
        ELSE IF m.user.shost # m.user.host
        THEN UNION {{[m |-> b.m, lhost |-> a.p, shost |-> b.p] :
                        b \in Alloc(ReadMark(a.m, m.user.shost), stxt)} :
                    stxt \in ReadChoices(a.m, m.user.shost)}
        ELSE {[m |-> a.m, lhost |-> a.p, shost |-> a.p]} :
            a \in Alloc(ReadMark(m, m.user.host), ltxt)} :
        ltxt \in ReadChoices(m, m.user.host)}

\* Line 146: the duplication failed.
DupFailed(d) == d.lhost = NULL \/ d.shost = NULL

\* Lines 147-149: give back what the failed duplication had got.
DupCleanup(d) ==
    LET m1 == Free(d.m, d.lhost)
    IN  IF d.lhost # d.shost THEN Free(m1, d.shost) ELSE m1

\* What the two strdup() calls of lines 140-142 came to.
DupResult(d) ==
    IF d.lhost = NULL THEN "no_lhost" ELSE IF d.shost = NULL THEN "no_shost" ELSE "ok"

\* Lines 138-153: not remote, just use user_ctx.host.
FqdnDup(c, m) ==
    \E d \in DupHosts(m) : \E crash \in CrashChoices(m, d.m) :
        IF crash THEN FqdnReturn(c, d.m, "crash", DupResult(d))
        ELSE IF DupFailed(d) THEN FqdnReturn(c, DupCleanup(d), "false", DupResult(d))
        ELSE FqdnInstallRunas(c, d.m, DupResult(d), d.lhost, d.shost)

\* Lines 132-137: remote, resolve runas_ctx.host.
FqdnRemote(c, m) ==
    \E o \in resolve_host(ReadMark(m, m.runas.host)) :
        LET c1 == [c EXCEPT !.calls = Append(@, CallRecord("runas", o))]
        IN  IF o.rc # "ok" THEN FqdnReturn(c1, o.m, "false", "none")
            ELSE FqdnInstallRunas(c1, o.m, "none", o.lp, o.sp)

\* Lines 130-160: next resolve runas_ctx.host.
FqdnRunas(c, m) == IF c.remote THEN FqdnRemote(c, m) ELSE FqdnDup(c, m)

\* Lines 124-128: release the user context's pair and install the new one.
FqdnInstallUser(c, m, lhost, shost) ==
    LET m1 == ReleaseHosts(m, m.user)
        m2 == [m1 EXCEPT !.user = InstalledPair(lhost, shost)]
    IN  \E crash \in CrashChoices(m, m1) :
            IF crash THEN FqdnReturn(c, m1, "crash", "none")
            ELSE FqdnRunas(c, m2)

\* Lines 118-122: the user's host did not resolve, try the target's.
FqdnFallback(c, m) ==
    \E o \in resolve_host(ReadMark(m, m.runas.host)) :
        LET c1 == [c EXCEPT !.calls = Append(@, CallRecord("runas", o))]
        IN  IF o.rc # "ok" THEN FqdnReturn(c1, o.m, "false", "none")
            ELSE FqdnInstallUser(c1, o.m, o.lp, o.sp)

\* Lines 116-128: first resolve user_ctx.host.
FqdnResolveUser(c, m) ==
    \E o \in resolve_host(ReadMark(m, m.user.host)) :
        LET c1 == [c EXCEPT !.calls = Append(@, CallRecord("user", o))]
        IN  IF o.rc # "ok" THEN FqdnFallback(c1, o.m)
            ELSE FqdnInstallUser(c1, o.m, o.lp, o.sp)

\* Mutant: both host names are always resolved.
IsRemoteMut(runhost, host) == TRUE

\* Line 114: the -h flag was given when the two host names differ.
IsRemote(runhost, host) == runhost # host

\* Line 114: the pairs of names strcmp() can see; a freed name reads as
\* anything.
HostPairs(m) == ReadChoices(m, m.runas.host) \X ReadChoices(m, m.user.host)

\* The directive values the defaults layer passes: no value at all, the
\* flag set, the flag cleared.
SdFlags == {"null", "on", "off"}

cb_fqdn(sd_un) ==
    IF FqdnDisabled(sd_un)
    THEN FqdnReturn([sd_un |-> sd_un, same |-> FALSE, remote |-> FALSE,
                     calls |-> <<>>], Machine, "true", "none")
    ELSE \E h \in HostPairs(Machine) :
            LET m1 == ReadMark(ReadMark(Machine, runas_ctx.host), user_ctx.host)
                c == [sd_un |-> sd_un, same |-> (h[1] = h[2]),
                      remote |-> IsRemote(h[1], h[2]), calls |-> <<>>]
            IN  \E crash \in CrashChoices(Machine, m1) :
                    IF crash THEN FqdnReturn(c, m1, "crash", "none")
                    ELSE FqdnResolveUser(c, m1)

CbFqdn ==
    /\ pc = "ready"
    /\ ncalls < MaxCalls
    /\ \E sd_un \in SdFlags : cb_fqdn(sd_un)

(***************************************************************************)
(* The defaults layer moves on to its next directive: what the last        *)
(* operation returned is behind it.                                        *)
(***************************************************************************)
NextDirective ==
    /\ pc \in {"hostname", "returned"}
    /\ pc' = "ready"
    /\ last' = NoOp
    /\ UNCHANGED <<heap, user_ctx, runas_ctx, heapErr, ncalls, logVars, restVars>>

InitHost ==
    /\ pc = "start"
    /\ heap = [b \in Blocks |-> EmptyBlock]
    /\ user_ctx = [host |-> NULL, shost |-> NULL]
    /\ runas_ctx = [host |-> NULL, shost |-> NULL]
    /\ heapErr = {}
    /\ last = NoOp
    /\ ncalls = 0

(***************************************************************************)
(* The event log callbacks, callbacks.c lines 196-278.  The defaults layer *)
(* stores a directive's value in its def_ variable and then calls the      *)
(* directive's callback with that value.                                   *)
(***************************************************************************)
\* A string directive's values: no string, or a path.
LogNull == "NULL"
LogPaths == {LogNull, "/var/log/sudo", "/var/log/sudo.log"}

\* The syslog directive's values: 0 when disabled, else a facility.
SyslogVals == 0..MaxFacility

\* Line 273 reads the str member of a value stored through ival: the
\* defaults layer zeroes the union first, so str is NULL exactly when ival
\* is 0.
SdUnStr(ival) == IF ival = 0 THEN LogNull ELSE "facility"

\* SET(logtype, bit).
SET(logtype, bit) == logtype \cup {bit}

\* Mutant: cb_logfile() starts from an empty mask.
LogfileBaseMut(syslog) == {}

\* Line 244: the syslog destination as def_syslog has it.
LogfileBase(syslog) == IF syslog # 0 THEN {"EVLOG_SYSLOG"} ELSE {}

\* Lines 244-249: the destination mask cb_logfile() passes on.
LogfileType(syslog, str) ==
    IF str # LogNull THEN SET(LogfileBase(syslog), "EVLOG_FILE")
    ELSE LogfileBase(syslog)

\* Line 270: the file destination as def_logfile has it.
SyslogBase(logfile) == IF logfile # LogNull THEN {"EVLOG_FILE"} ELSE {}

\* Lines 270-275: the destination mask cb_syslog() passes on.
SyslogType(logfile, str) ==
    IF str # LogNull THEN SET(SyslogBase(logfile), "EVLOG_SYSLOG")
    ELSE SyslogBase(logfile)

\* Lines 240-253.
CbLogfile ==
    \E str \in LogPaths :
        /\ def_logfile' = str
        /\ evlog_type' = LogfileType(def_syslog, str)
        /\ evlog_type_set' = TRUE
        /\ evlog_logpath' = str
        /\ lastcb' = [cb |-> "cb_logfile", ret |-> TRUE]
        /\ UNCHANGED <<def_syslog, evlog_format, def_timestamp_type,
                       override_umask, hostVars, restVars>>

\* Lines 266-278.
CbSyslog ==
    \E ival \in SyslogVals :
        /\ def_syslog' = ival
        /\ evlog_type' = SyslogType(def_logfile, SdUnStr(ival))
        /\ evlog_type_set' = TRUE
        /\ lastcb' = [cb |-> "cb_syslog", ret |-> TRUE]
        /\ UNCHANGED <<def_logfile, evlog_logpath, evlog_format,
                       def_timestamp_type, override_umask, hostVars, restVars>>

\* Line 261.
LogFormat(tuple) == IF tuple = "sudo" THEN "EVLOG_SUDO" ELSE "EVLOG_JSON"

\* Lines 255-264.
CbLogFormat ==
    \E tuple \in {"sudo", "json"} :
        /\ evlog_format' = LogFormat(tuple)
        /\ lastcb' = [cb |-> "cb_log_format", ret |-> TRUE]
        /\ UNCHANGED <<def_logfile, def_syslog, evlog_type, evlog_type_set,
                       evlog_logpath, def_timestamp_type, override_umask, hostVars, restVars>>

\* Lines 203-206.
TimestampType(flag) == IF flag THEN "tty" ELSE "global"

\* Lines 196-208.
CbTtyTickets ==
    \E flag \in BOOLEAN :
        /\ def_timestamp_type' = TimestampType(flag)
        /\ lastcb' = [cb |-> "cb_tty_tickets", ret |-> TRUE]
        /\ UNCHANGED <<def_logfile, def_syslog, evlog_type, evlog_type_set,
                       evlog_logpath, evlog_format, override_umask, hostVars, restVars>>

\* The file mode bits 0777 of <sys/stat.h>.
ACCESSPERMS == 511

\* Line 217: override umask if explicitly set in sudoers.
OverrideUmask(mode) == mode # ACCESSPERMS

\* Lines 210-220.
CbUmask ==
    \E mode \in {ACCESSPERMS, 18} :
        /\ override_umask' = OverrideUmask(mode)
        /\ lastcb' = [cb |-> "cb_umask", ret |-> TRUE]
        /\ UNCHANGED <<def_logfile, def_syslog, evlog_type, evlog_type_set,
                       evlog_logpath, evlog_format, def_timestamp_type, hostVars, restVars>>

(***************************************************************************)
(* cb_timestampowner(), callbacks.c lines 168-194.  The user database is   *)
(* a set of records; a lookup hands back a record of it or PwNull.         *)
(***************************************************************************)
DigitSeq == <<"0", "1", "2", "3", "4", "5", "6", "7", "8", "9">>

IsDigit(c) == \E i \in 1..Len(DigitSeq) : DigitSeq[i] = c

DigitVal(c) == (CHOOSE i \in 1..Len(DigitSeq) : DigitSeq[i] = c) - 1

RECURSIVE Decimal(_)
Decimal(s) ==
    IF s = <<>> THEN 0
    ELSE Decimal(SubSeq(s, 1, Len(s) - 1)) * 10 + DigitVal(s[Len(s)])

\* sudo_strtoid(): the id a string of decimal digits denotes; errstr is set
\* for anything else.
sudo_strtoid(s) ==
    IF s # <<>> /\ \A i \in 1..Len(s) : IsDigit(s[i])
    THEN [errstr |-> FALSE, id |-> Decimal(s)]
    ELSE [errstr |-> TRUE, id |-> 0]

\* The NULL struct passwd pointer of line 172.
PwNull == [null |-> TRUE, name |-> <<>>, uid |-> 0, gid |-> 0]

\* The records a user database is made of; one user is named "#1".
PwRecords ==
    {[null |-> FALSE, name |-> <<"r", "o", "o", "t">>, uid |-> 0, gid |-> 0],
     [null |-> FALSE, name |-> <<"a">>, uid |-> 1, gid |-> 10],
     [null |-> FALSE, name |-> <<"#", "1">>, uid |-> 5, gid |-> 6]}

\* The values of the timestampowner directive that are tried.
OwnerValues ==
    {<<"#", "0">>, <<"#", "1">>, <<"#", "7">>, <<"#", "1", "0">>, <<"#", "x">>,
     <<"#">>, <<"r", "o", "o", "t">>, <<"a">>, <<"b">>, <<>>}

sudo_getpwuid(db, uid) ==
    IF \E r \in db : r.uid = uid THEN CHOOSE r \in db : r.uid = uid ELSE PwNull

sudo_getpwnam(db, name) ==
    IF \E r \in db : r.name = name THEN CHOOSE r \in db : r.name = name ELSE PwNull

\* Line 176: the value starts with '#'.
OwnerIsNumeric(user) == Len(user) > 0 /\ user[1] = "#"

\* Lines 176-181: the lookup by uid; [pw, lookups].
OwnerByUid(db, user) ==
    IF OwnerIsNumeric(user) /\ ~sudo_strtoid(Tail(user)).errstr
    THEN [pw |-> sudo_getpwuid(db, sudo_strtoid(Tail(user)).id),
          lookups |-> <<[fn |-> "sudo_getpwuid", arg |-> Tail(user)]>>]
    ELSE [pw |-> PwNull, lookups |-> <<>>]

\* Mutant: the name is looked up whatever the lookup by uid found.
OwnerNeedsNameMut(pw) == TRUE

\* Line 182: no record yet.
OwnerNeedsName(pw) == pw.null

\* Lines 182-183: the lookup by name, on the whole value.
OwnerByName(db, user, u) ==
    IF OwnerNeedsName(u.pw)
    THEN [pw |-> sudo_getpwnam(db, user),
          lookups |-> Append(u.lookups, [fn |-> "sudo_getpwnam", arg |-> user])]
    ELSE u

\* timestamp_set_owner(uid, gid).
timestamp_set_owner(uid, gid) == [uid |-> uid, gid |-> gid]

\* Mutant: the owner is set before the record is tested.
OwnerAfterMut(owner, pw) == timestamp_set_owner(pw.uid, pw.gid)

\* Lines 184-190: the owner is set when there is a record.
OwnerAfter(owner, pw) ==
    IF pw.null THEN owner ELSE timestamp_set_owner(pw.uid, pw.gid)

NoOwnerOp == [cb |-> "none", user |-> <<>>, lookups |-> <<>>, pw |-> PwNull,
              warned |-> FALSE, ret |-> TRUE,
              prev |-> timestamp_set_owner(0, 0)]

CbTimestampOwner ==
    \E user \in OwnerValues :
        LET r == OwnerByName(passwd, user, OwnerByUid(passwd, user))
        IN  /\ ts_owner' = OwnerAfter(ts_owner, r.pw)
            /\ lastOwner' = [cb |-> "cb_timestampowner", user |-> user,
                             lookups |-> r.lookups, pw |-> r.pw,
                             warned |-> r.pw.null, ret |-> ~r.pw.null,
                             prev |-> ts_owner]
            /\ UNCHANGED <<passwd, hostVars, logVars, seqVars, escVars, interceptVars, plainVars>>

InitOwner ==
    /\ passwd \in SUBSET PwRecords
    /\ ts_owner = timestamp_set_owner(0, 0)
    /\ lastOwner = NoOwnerOp

InitOwnerIdle ==
    /\ passwd = {}
    /\ ts_owner = timestamp_set_owner(0, 0)
    /\ lastOwner = NoOwnerOp

(***************************************************************************)
(* fill_seq(), iolog_path_escapes.c lines 36-60.  Each process has its own *)
(* static sessid buffer; the sequence file of a log directory is shared by *)
(* all processes.                                                          *)
(***************************************************************************)
\* Number of processes writing I/O logs.
NProcs == 2
\* Largest buffer size a generator is called with.
MaxBuf == 12
\* iolog_nextid() calls followed per process.
MaxAllocs == 2

Procs == 1..NProcs

\* The log root directories.
LogDirs == {"/var/log/sudo-io", "/var/log/other-io"}

BufSizes == 0..MaxBuf

\* (size_t)-1 of line 50, at the width sizes are given here.
SIZE_MAX == 65535

B36 == <<"0", "1", "2", "3", "4", "5", "6", "7", "8", "9", "A", "B", "C", "D",
         "E", "F", "G", "H", "I", "J", "K", "L", "M", "N", "O", "P", "Q", "R",
         "S", "T", "U", "V", "W", "X", "Y", "Z">>

\* The six base-36 digits of id, most significant first.
RECURSIVE B36Digits(_, _)
B36Digits(id, n) ==
    IF n = 0 THEN <<>>
    ELSE Append(B36Digits(id \div 36, n - 1), B36[(id % 36) + 1])

SessionId(id) == B36Digits(id, 6)

\* What a directory's sequence file may hold when the first process comes:
\* nothing yet, or the id before "A1B2C3".
SeqSeeds == {0, 606857618}

\* sessid[0] == '\0': no id is cached.
NoSessid == <<>>

\* Mutant: the sequence file is read and not advanced.
iolog_nextidMut(logdir, files) ==
    {[ok |-> FALSE, sessid |-> NoSessid, seqfile |-> files],
     [ok |-> TRUE, sessid |-> SessionId(files[logdir] + 1), seqfile |-> files]}

\* iolog_nextid(logdir, sessid): failure, or the directory's next id, taken
\* atomically from its sequence file.  Outcomes [ok, sessid, seqfile].
iolog_nextid(logdir, files) ==
    {[ok |-> FALSE, sessid |-> NoSessid, seqfile |-> files],
     [ok |-> TRUE, sessid |-> SessionId(files[logdir] + 1),
      seqfile |-> [files EXCEPT ![logdir] = @ + 1]]}

\* snprintf()/strlcpy() into a buffer of strsize bytes: what is written (a
\* size of 0 writes nothing) and the length of the whole value.
Bounded(value, strsize) ==
    [buf |-> IF strsize = 0 THEN <<>>
             ELSE SubSeq(value, 1, IF Len(value) < strsize - 1 THEN Len(value)
                                   ELSE strsize - 1),
     wrote |-> strsize # 0,
     ret |-> Len(value)]

\* Mutant: the segments come out last first.
SeqPathMut(id) == <<id[5], id[6], "/", id[3], id[4], "/", id[1], id[2]>>

\* Lines 54-55: "%c%c/%c%c/%c%c".
SeqPath(id) == <<id[1], id[2], "/", id[3], id[4], "/", id[5], id[6]>>

\* Mutant: an id is obtained on every call.
SeqNeedsIdMut(id) == TRUE

\* Line 48: no id yet.
SeqNeedsId(id) == id = NoSessid

\* Mutant: a failed allocation is rendered as an empty id.
SeqFailedMut(strsize) == Bounded(<<>>, strsize)

\* Lines 49-50: iolog_nextid() failed, (size_t)-1 is returned before the
\* snprintf() of line 54.
SeqFailed(strsize) == [buf |-> <<>>, wrote |-> FALSE, ret |-> SIZE_MAX]

NoFill == [gen |-> "none", p |-> 0, dir |-> "", strsize |-> 0, ret |-> 0,
           buf |-> <<>>, wrote |-> FALSE, alloc |-> "none", had |-> NoSessid,
           value |-> <<>>, lookups |-> <<>>]

\* No expansion has been made, or a generator has been called since.
NoExpand == [op |-> "none", pattern |-> <<>>, ok |-> FALSE, err |-> "none",
             path |-> <<>>]

\* The whole of fill_seq() in process p: outcomes [sessid, seqfile, alloc,
\* ret, buf, wrote], sessid being the process's buffer afterwards.
fill_seq(p, logdir, strsize) ==
    IF SeqNeedsId(sessid[p])
    THEN {IF a.ok
          THEN [sessid |-> a.sessid, seqfile |-> a.seqfile, alloc |-> "ok",
                ret |-> Bounded(SeqPath(a.sessid), strsize).ret,
                buf |-> Bounded(SeqPath(a.sessid), strsize).buf,
                wrote |-> Bounded(SeqPath(a.sessid), strsize).wrote]
          ELSE [sessid |-> a.sessid, seqfile |-> a.seqfile, alloc |-> "failed",
                ret |-> SeqFailed(strsize).ret, buf |-> SeqFailed(strsize).buf,
                wrote |-> SeqFailed(strsize).wrote] :
             a \in iolog_nextid(logdir, seqfile)}
    ELSE {[sessid |-> sessid[p], seqfile |-> seqfile, alloc |-> "none",
           ret |-> Bounded(SeqPath(sessid[p]), strsize).ret,
           buf |-> Bounded(SeqPath(sessid[p]), strsize).buf,
           wrote |-> Bounded(SeqPath(sessid[p]), strsize).wrote]}

FillSeqIn(P, D) ==
    \E p \in P, logdir \in D, strsize \in BufSizes :
        \E o \in fill_seq(p, logdir, strsize) :
            /\ o.alloc # "none" => nalloc[p] < MaxAllocs
            /\ sessid' = [sessid EXCEPT ![p] = o.sessid]
            /\ seqfile' = o.seqfile
            /\ issued' = IF o.alloc = "ok"
                         THEN issued \cup {[dir |-> logdir, id |-> o.sessid, by |-> p]}
                         ELSE issued
            /\ nalloc' = IF o.alloc # "none" THEN [nalloc EXCEPT ![p] = @ + 1]
                         ELSE nalloc
            /\ lastFill' = [gen |-> "seq", p |-> p, dir |-> logdir,
                            strsize |-> strsize, ret |-> o.ret, buf |-> o.buf,
                            wrote |-> o.wrote, alloc |-> o.alloc,
                            had |-> sessid[p],
                            value |-> IF o.alloc = "failed" THEN <<>>
                                      ELSE SeqPath(o.sessid),
                            lookups |-> <<>>]
            /\ lastExpand' = NoExpand
            /\ UNCHANGED <<hostVars, logVars, ownerVars, esc_ctx, group_db, interceptVars, plainVars>>

FillSeq == FillSeqIn(Procs, LogDirs)

InitSeq ==
    /\ sessid = [p \in Procs |-> NoSessid]
    /\ seqfile \in [LogDirs -> SeqSeeds]
    /\ issued = {}
    /\ nalloc = [p \in Procs |-> 0]
    /\ lastFill = NoFill

InitSeqIdle ==
    /\ sessid = [p \in Procs |-> NoSessid]
    /\ seqfile = [d \in LogDirs |-> 0]
    /\ issued = {}
    /\ nalloc = [p \in Procs |-> 0]
    /\ lastFill = NoFill

(***************************************************************************)
(* The other generators, iolog_path_escapes.c lines 62-125.  esc_ctx holds *)
(* what they read of user_ctx and runas_ctx besides the host name;         *)
(* group_db is the group database.                                         *)
(***************************************************************************)
\* The NULL struct group pointer.
GrNull == [null |-> TRUE, name |-> <<>>, gid |-> 0]

\* The records a group database is made of.
GrRecords ==
    {[null |-> FALSE, name |-> <<"w", "h", "e", "e", "l">>, gid |-> 0],
     [null |-> FALSE, name |-> <<"u", "s", "e", "r", "s">>, gid |-> 100]}

\* A group given with -g; it need not be in the database.
RunasGroups == {GrNull, [null |-> FALSE, name |-> <<"a", "d", "m">>, gid |-> 4]}

sudo_getgrgid(db, gid) ==
    IF \E g \in db : g.gid = gid THEN CHOOSE g \in db : g.gid = gid ELSE GrNull

\* "%u": the decimal digits of n.
RECURSIVE ToDecimal(_)
ToDecimal(n) ==
    IF n < 10 THEN <<DigitSeq[n + 1]>>
    ELSE Append(ToDecimal(n \div 10), DigitSeq[(n % 10) + 1])

\* Lines 80 and 106: "#%u".
GidText(gid) == <<"#">> \o ToDecimal(gid)

\* A generator's value and the group database lookups it made.
fill_user == [value |-> esc_ctx.name, lookups |-> <<>>]

\* Lines 76-81.
fill_group ==
    LET grp == sudo_getgrgid(group_db, esc_ctx.gid)
    IN  [value |-> IF ~grp.null THEN grp.name ELSE GidText(esc_ctx.gid),
         lookups |-> <<esc_ctx.gid>>]

fill_runas_user == [value |-> esc_ctx.runas_pw.name, lookups |-> <<>>]

\* Mutant: the target user's primary group comes before the group given.
fill_runas_groupMut ==
    LET grp == sudo_getgrgid(group_db, esc_ctx.runas_pw.gid)
    IN  IF ~grp.null
        THEN [value |-> grp.name, lookups |-> <<esc_ctx.runas_pw.gid>>]
        ELSE IF ~esc_ctx.runas_gr.null
        THEN [value |-> esc_ctx.runas_gr.name, lookups |-> <<esc_ctx.runas_pw.gid>>]
        ELSE [value |-> GidText(esc_ctx.runas_pw.gid),
              lookups |-> <<esc_ctx.runas_pw.gid>>]

\* Lines 99-109.
fill_runas_group ==
    IF ~esc_ctx.runas_gr.null
    THEN [value |-> esc_ctx.runas_gr.name, lookups |-> <<>>]
    ELSE LET grp == sudo_getgrgid(group_db, esc_ctx.runas_pw.gid)
         IN  [value |-> IF ~grp.null THEN grp.name
                        ELSE GidText(esc_ctx.runas_pw.gid),
              lookups |-> <<esc_ctx.runas_pw.gid>>]

\* Line 117: the string user_ctx.shost points at.
fill_hostname ==
    [value |-> IF user_ctx.shost = NULL THEN <<>> ELSE CStr(heap[user_ctx.shost].str),
     lookups |-> <<>>]

fill_command == [value |-> esc_ctx.cmnd_base, lookups |-> <<>>]

\* Mutant: strlcpy() reports what it copied.
FillResultMut(value, strsize) ==
    [Bounded(value, strsize) EXCEPT !.ret = Len(Bounded(value, strsize).buf)]

\* What a generator hands back for its value: strlcpy() and snprintf()
\* both write what fits and return the length of the whole value.
FillResult(value, strsize) == Bounded(value, strsize)

\* A generator other than fill_seq() returns, called with strsize bytes.
FillReturn(gen, g, strsize) ==
    /\ lastFill' = [gen |-> gen, p |-> 0, dir |-> "", strsize |-> strsize,
                    ret |-> FillResult(g.value, strsize).ret,
                    buf |-> FillResult(g.value, strsize).buf,
                    wrote |-> FillResult(g.value, strsize).wrote,
                    alloc |-> "none", had |-> NoSessid, value |-> g.value,
                    lookups |-> g.lookups]
    /\ lastExpand' = NoExpand
    /\ UNCHANGED <<hostVars, logVars, ownerVars, sessid, seqfile, issued, nalloc,
                   esc_ctx, group_db, interceptVars, plainVars>>

FillUser == \E strsize \in BufSizes : FillReturn("user", fill_user, strsize)

FillGroup == \E strsize \in BufSizes : FillReturn("group", fill_group, strsize)

FillRunasUser ==
    \E strsize \in BufSizes : FillReturn("runas_user", fill_runas_user, strsize)

FillRunasGroup ==
    \E strsize \in BufSizes : FillReturn("runas_group", fill_runas_group, strsize)

\* user_ctx.shost is set once get_hostname() has run.
FillHostname ==
    /\ pc = "hostname"
    /\ \E strsize \in BufSizes : FillReturn("hostname", fill_hostname, strsize)

FillCommand == \E strsize \in BufSizes : FillReturn("command", fill_command, strsize)

InitEsc ==
    /\ esc_ctx \in [name : {<<"a", "l">>}, gid : {0},
                    runas_pw : {[name |-> <<"o", "p">>, gid |-> 100]},
                    runas_gr : RunasGroups,
                    cmnd_base : {<<"v", "i", "s", "u", "d", "o">>}]
    /\ group_db \in SUBSET GrRecords
    /\ lastExpand = NoExpand

InitEscIdle ==
    /\ esc_ctx = [name |-> <<"a", "l">>, gid |-> 0,
                  runas_pw |-> [name |-> <<"o", "p">>, gid |-> 100],
                  runas_gr |-> GrNull, cmnd_base |-> <<"l", "s">>]
    /\ group_db = {}
    /\ lastExpand = NoExpand

(***************************************************************************)
(* The path template expander over the table of lines 127-138.  A pattern  *)
(* is a sequence of parts: literal text, or a marker %{token}.             *)
(***************************************************************************)
\* The process whose path is expanded, and its log directory.
EscProc == {1}
EscDir == {"/var/log/sudo-io"}

\* Longest pattern, in parts.
MaxParts == 3
\* Size of the buffer a path is assembled in.
MaxPath == 12

\* Mutant: the table knows one more name.
PathEscapesMut ==
    <<"seq", "user", "group", "runas_user", "runas_group", "hostname",
      "command", "bogus">>

\* Lines 128-137: the names of the table, in its order.
PathEscapes ==
    <<"seq", "user", "group", "runas_user", "runas_group", "hostname", "command">>

\* The index of the entry named token, 0 at the table's NULL entry.
EscapeLookup(token) ==
    IF \E i \in 1..Len(PathEscapes) : PathEscapes[i] = token
    THEN CHOOSE i \in 1..Len(PathEscapes) : PathEscapes[i] = token
    ELSE 0

Lit(text) == [kind |-> "lit", text |-> text, token |-> ""]
Marker(token) == [kind |-> "marker", text |-> <<>>, token |-> token]

\* The parts patterns are made of: a separator, a text too long for any
\* path, markers the table knows and markers it does not.
PatternParts ==
    {Lit(<<"/">>), Lit([i \in 1..MaxPath |-> "x"]),
     Marker("seq"), Marker("user"), Marker("bogus"), Marker("")}

IsSeqMarker(part) == part = Marker("seq")

\* Patterns of at most MaxParts parts that ask for the session id at most
\* once.
Patterns ==
    {pat \in UNION {[1..n -> PatternParts] : n \in 1..MaxParts} :
        Cardinality({i \in 1..Len(pat) : IsSeqMarker(pat[i])}) <= 1}

HasSeqMarker(pat) == \E i \in 1..Len(pat) : IsSeqMarker(pat[i])

\* A marker of the pattern names no entry of the table.
HasUnknownToken(pat) ==
    \E i \in 1..Len(pat) : pat[i].kind = "marker" /\ EscapeLookup(pat[i].token) = 0

\* What a part contributes, seqtext being the rendered session id.
PartText(part, seqtext) ==
    IF part.kind = "lit" THEN part.text
    ELSE IF part.token = "seq" THEN seqtext
    ELSE IF part.token = "user" THEN fill_user.value
    ELSE IF part.token = "group" THEN fill_group.value
    ELSE IF part.token = "runas_user" THEN fill_runas_user.value
    ELSE IF part.token = "runas_group" THEN fill_runas_group.value
    ELSE IF part.token = "hostname" THEN fill_hostname.value
    ELSE IF part.token = "command" THEN fill_command.value
    ELSE <<>>

RECURSIVE Assemble(_, _, _)
Assemble(pat, n, seqtext) ==
    IF n = 0 THEN <<>>
    ELSE Assemble(pat, n - 1, seqtext) \o PartText(pat[n], seqtext)

\* The session id marker is reached: what precedes it fits.
SeqReached(pat) ==
    \E i \in 1..Len(pat) :
        IsSeqMarker(pat[i]) /\ Len(Assemble(pat, i - 1, <<>>)) < MaxPath

\* The expansion is over: its result, and what fill_seq() did in process p.
ExpandReturn(p, logdir, pat, o, ok, err, path) ==
    /\ lastExpand' = [op |-> "expand", pattern |-> pat, ok |-> ok, err |-> err,
                      path |-> path]
    /\ sessid' = [sessid EXCEPT ![p] = o.sessid]
    /\ seqfile' = o.seqfile
    /\ issued' = IF o.alloc = "ok"
                 THEN issued \cup {[dir |-> logdir, id |-> o.sessid, by |-> p]}
                 ELSE issued
    /\ nalloc' = IF o.alloc # "none" THEN [nalloc EXCEPT ![p] = @ + 1] ELSE nalloc
    /\ lastFill' = NoFill
    /\ UNCHANGED <<hostVars, logVars, ownerVars, esc_ctx, group_db, interceptVars, plainVars>>

\* fill_seq() was not called.
SeqUntouched(p) ==
    [sessid |-> sessid[p], seqfile |-> seqfile, alloc |-> "none", ret |-> 0,
     buf |-> <<>>, wrote |-> FALSE]

\* expand(pattern): an unknown token aborts the expansion; else the parts
\* are assembled from the left, each generator being given the room that
\* is left, and a return value that is not below that room is a failure.
expand(p, logdir, pat) ==
    IF HasUnknownToken(pat)
    THEN ExpandReturn(p, logdir, pat, SeqUntouched(p), FALSE, "UnknownToken", <<>>)
    ELSE IF ~(HasSeqMarker(pat) /\ SeqReached(pat))
    THEN LET path == Assemble(pat, Len(pat), <<>>)
         IN  IF Len(path) < MaxPath
             THEN ExpandReturn(p, logdir, pat, SeqUntouched(p), TRUE, "none", path)
             ELSE ExpandReturn(p, logdir, pat, SeqUntouched(p), FALSE, "TooLong", <<>>)
    ELSE \E o \in fill_seq(p, logdir, MaxPath) :
            /\ o.alloc # "none" => nalloc[p] < MaxAllocs
            /\ IF o.alloc = "failed"
               THEN ExpandReturn(p, logdir, pat, o, FALSE, "NoSequence", <<>>)
               ELSE LET path == Assemble(pat, Len(pat), SeqPath(o.sessid))
                    IN  IF Len(path) < MaxPath
                        THEN ExpandReturn(p, logdir, pat, o, TRUE, "none", path)
                        ELSE ExpandReturn(p, logdir, pat, o, FALSE, "TooLong", <<>>)

ExpandPath == \E p \in EscProc, logdir \in EscDir, pat \in Patterns : expand(p, logdir, pat)

InitLog ==
    /\ def_logfile \in LogPaths
    /\ def_syslog \in SyslogVals
    /\ evlog_type = {}
    /\ evlog_type_set = FALSE
    /\ evlog_logpath = LogNull
    /\ evlog_format = "EVLOG_SUDO"
    /\ def_timestamp_type = "tty"
    /\ override_umask = FALSE
    /\ lastcb = [cb |-> "none", ret |-> TRUE]

\* The initial state of the host name runs: the event log is left alone.
InitLogIdle ==
    /\ def_logfile = LogNull
    /\ def_syslog = 0
    /\ evlog_type = {}
    /\ evlog_type_set = FALSE
    /\ evlog_logpath = LogNull
    /\ evlog_format = "EVLOG_SUDO"
    /\ def_timestamp_type = "tty"
    /\ override_umask = FALSE
    /\ lastcb = [cb |-> "none", ret |-> TRUE]

(***************************************************************************)
(* intercept_type and intercept_allow_setid (callbacks.c 402-433).         *)
(***************************************************************************)
\* The most callbacks of one run.
MaxIntercepts == 5

\* The operator of a setting: -1 when the front end supplied the value,
\* otherwise false (0) or true (1) from the sudoers text.
InterceptOps == {-1, 0, 1}

\* The values of intercept_type.
InterceptTypes == {"dso", "trace"}

\* ISSET(user_ctx.flags, USER_INTERCEPT_SETID).
InterceptSetid(flags) == "USER_INTERCEPT_SETID" \in flags

InterceptTypeResetsMut(op, tuple, flags) == tuple = "dso" /\ ~InterceptSetid(flags)

\* cb_intercept_type() line 408-413: the conditions under which the default
\* of intercept_allow_setid is reset.
InterceptTypeResets(op, tuple, flags) ==
    op # -1 /\ tuple = "dso" /\ ~InterceptSetid(flags)

NoIntercept == [cb |-> "none", op |-> -1, tuple |-> "none", ret |-> TRUE]

CbInterceptType ==
    \E op \in InterceptOps, tuple \in InterceptTypes :
        /\ nintercept < MaxIntercepts
        /\ def_intercept_allow_setid' =
              IF InterceptTypeResets(op, tuple, user_ctx_flags)
              THEN FALSE ELSE def_intercept_allow_setid
        /\ lastIntercept' = [cb |-> "cb_intercept_type", op |-> op,
                             tuple |-> tuple, ret |-> TRUE]
        /\ nintercept' = nintercept + 1
        /\ UNCHANGED <<user_ctx_flags, hostVars, logVars, ownerVars, seqVars, escVars,
                       plainVars>>

CbInterceptAllowSetid ==
    \E op \in InterceptOps :
        /\ nintercept < MaxIntercepts
        /\ user_ctx_flags' = IF op # -1
                             THEN user_ctx_flags \cup {"USER_INTERCEPT_SETID"}
                             ELSE user_ctx_flags
        /\ lastIntercept' = [cb |-> "cb_intercept_allow_setid", op |-> op,
                             tuple |-> "none", ret |-> TRUE]
        /\ nintercept' = nintercept + 1
        /\ UNCHANGED <<def_intercept_allow_setid, hostVars, logVars, ownerVars,
                       seqVars, escVars, plainVars>>

\* Either value of the default and of the flag: the front end sets both
\* before sudoers is read.
InitIntercept ==
    /\ def_intercept_allow_setid \in BOOLEAN
    /\ user_ctx_flags \in SUBSET {"USER_INTERCEPT_SETID"}
    /\ lastIntercept = NoIntercept
    /\ nintercept = 0

InitInterceptIdle ==
    /\ def_intercept_allow_setid = FALSE
    /\ user_ctx_flags = {}
    /\ lastIntercept = NoIntercept
    /\ nintercept = 0

(***************************************************************************)
(* The handlers that pass a value on: cb_runchroot (callbacks.c 222-238),  *)
(* the event log setters (280-400), cb_log_input and cb_log_output         *)
(* (435-458).  The event log and set_cmnd_status() are collaborators: what *)
(* a handler does to them is the calls it makes, kept in collab_calls.     *)
(***************************************************************************)
\* sd_un->ival of the priority and length directives.
PlainInts == {0, 80}

\* sd_un->str of the mailer directives and of runchroot.
PlainStrs == {"/usr/sbin/sendmail", "-t"}

\* user_ctx.cmnd: not resolved yet, or a resolved command.
CmndNull == "NULL"
Cmnds == {CmndNull, "/usr/bin/id"}

\* One call of a collaborator with its argument.
Call(fn, ival, flag, str) == [fn |-> fn, ival |-> ival, flag |-> flag, str |-> str]
CallInt(fn, ival) == Call(fn, ival, FALSE, "")
CallFlag(fn, flag) == Call(fn, 0, flag, "")
CallStr(fn, str) == Call(fn, 0, FALSE, str)

\* What a handler did: the calls it made and the value it returned.
Handled(calls) == [calls |-> calls, ret |-> TRUE]

\* Lines 230-235: the command is resolved again only when there is one.
cb_runchroot(cmnd, str) ==
    Handled(IF cmnd # CmndNull THEN <<CallStr("set_cmnd_status", str)>> ELSE <<>>)

cb_syslog_goodpri(ival) == Handled(<<CallInt("eventlog_set_syslog_acceptpri", ival)>>)

cb_syslog_badpri(ival) ==
    Handled(<<CallInt("eventlog_set_syslog_rejectpri", ival),
              CallInt("eventlog_set_syslog_alertpri", ival)>>)

cb_syslog_maxlen(ival) == Handled(<<CallInt("eventlog_set_syslog_maxlen", ival)>>)

cb_loglinelen(ival) == Handled(<<CallInt("eventlog_set_file_maxlen", ival)>>)

cb_log_year(flag) ==
    Handled(<<CallStr("eventlog_set_time_fmt",
                      IF flag THEN "%h %e %T %Y" ELSE "%h %e %T")>>)

\* Mutant: the handler returns the directive's value.
cb_log_hostMut(flag) ==
    [calls |-> <<CallFlag("eventlog_set_omit_hostname", ~flag)>>, ret |-> flag]

cb_log_host(flag) == Handled(<<CallFlag("eventlog_set_omit_hostname", ~flag)>>)

cb_mailerpath(str) == Handled(<<CallStr("eventlog_set_mailerpath", str)>>)

cb_mailerflags(str) == Handled(<<CallStr("eventlog_set_mailerflags", str)>>)

cb_mailfrom(str) == Handled(<<CallStr("eventlog_set_mailfrom", str)>>)

cb_mailto(str) == Handled(<<CallStr("eventlog_set_mailto", str)>>)

cb_mailsub(str) == Handled(<<CallStr("eventlog_set_mailsub", str)>>)

\* Lines 441-442.
cb_log_input(log, op) == [log EXCEPT !.stdin = op, !.ttyin = op]

\* Lines 453-455.
cb_log_output(log, op) == [log EXCEPT !.stdout = op, !.stderr = op, !.ttyout = op]

NoPlain == [cb |-> "none", op |-> -1, ret |-> TRUE]

\* A handler that only calls collaborators returns.
PlainReturn(cb, op, h) ==
    /\ collab_calls' = h.calls
    /\ lastPlain' = [cb |-> cb, op |-> op, ret |-> h.ret]
    /\ UNCHANGED <<user_ctx_cmnd, def_log, hostVars, logVars, ownerVars, seqVars,
                   escVars, interceptVars>>

\* cb_log_input() or cb_log_output() returns.
LogIoReturn(cb, op, log) ==
    /\ def_log' = log
    /\ collab_calls' = <<>>
    /\ lastPlain' = [cb |-> cb, op |-> op, ret |-> TRUE]
    /\ UNCHANGED <<user_ctx_cmnd, hostVars, logVars, ownerVars, seqVars, escVars,
                   interceptVars>>

CbRunchroot ==
    \E op \in InterceptOps, str \in PlainStrs :
        PlainReturn("cb_runchroot", op, cb_runchroot(user_ctx_cmnd, str))

CbSyslogGoodpri ==
    \E op \in InterceptOps, ival \in PlainInts :
        PlainReturn("cb_syslog_goodpri", op, cb_syslog_goodpri(ival))

CbSyslogBadpri ==
    \E op \in InterceptOps, ival \in PlainInts :
        PlainReturn("cb_syslog_badpri", op, cb_syslog_badpri(ival))

CbSyslogMaxlen ==
    \E op \in InterceptOps, ival \in PlainInts :
        PlainReturn("cb_syslog_maxlen", op, cb_syslog_maxlen(ival))

CbLoglinelen ==
    \E op \in InterceptOps, ival \in PlainInts :
        PlainReturn("cb_loglinelen", op, cb_loglinelen(ival))

CbLogYear ==
    \E op \in InterceptOps, flag \in BOOLEAN :
        PlainReturn("cb_log_year", op, cb_log_year(flag))

CbLogHost ==
    \E op \in InterceptOps, flag \in BOOLEAN :
        PlainReturn("cb_log_host", op, cb_log_host(flag))

CbMailerpath ==
    \E op \in InterceptOps, str \in PlainStrs :
        PlainReturn("cb_mailerpath", op, cb_mailerpath(str))

CbMailerflags ==
    \E op \in InterceptOps, str \in PlainStrs :
        PlainReturn("cb_mailerflags", op, cb_mailerflags(str))

CbMailfrom ==
    \E op \in InterceptOps, str \in PlainStrs :
        PlainReturn("cb_mailfrom", op, cb_mailfrom(str))

CbMailto ==
    \E op \in InterceptOps, str \in PlainStrs :
        PlainReturn("cb_mailto", op, cb_mailto(str))

CbMailsub ==
    \E op \in InterceptOps, str \in PlainStrs :
        PlainReturn("cb_mailsub", op, cb_mailsub(str))

CbLogInput ==
    \E op \in InterceptOps : LogIoReturn("cb_log_input", op, cb_log_input(def_log, op))

CbLogOutput ==
    \E op \in InterceptOps : LogIoReturn("cb_log_output", op, cb_log_output(def_log, op))

NoLog == [stdin |-> 0, ttyin |-> 0, stdout |-> 0, stderr |-> 0, ttyout |-> 0]

InitPlain ==
    /\ user_ctx_cmnd \in Cmnds
    /\ collab_calls = <<>>
    /\ def_log = NoLog
    /\ lastPlain = NoPlain

InitPlainIdle ==
    /\ user_ctx_cmnd = CmndNull
    /\ collab_calls = <<>>
    /\ def_log = NoLog
    /\ lastPlain = NoPlain

InitRestIdle == InitOwnerIdle /\ InitSeqIdle /\ InitEscIdle /\ InitInterceptIdle /\ InitPlainIdle

Init == InitHost /\ InitLogIdle /\ InitRestIdle

Next == GetHostname \/ SetRemoteHost \/ NextDirective \/ CbFqdn

\* The host name runs: get_hostname(), then cb_fqdn() any number of times.
Spec == Init /\ [][Next]_vars

InitDefaults == InitHost /\ InitLog /\ InitRestIdle

NextDefaults == CbLogfile \/ CbSyslog \/ CbLogFormat \/ CbTtyTickets \/ CbUmask

\* The event log runs: the callbacks in any order.
SpecDefaults == InitDefaults /\ [][NextDefaults]_vars

InitTsOwner ==
    InitHost /\ InitLogIdle /\ InitOwner /\ InitSeqIdle /\ InitEscIdle /\ InitInterceptIdle /\ InitPlainIdle

NextTsOwner == CbTimestampOwner

\* The timestamp owner runs: cb_timestampowner() any number of times over
\* one user database.
SpecTsOwner == InitTsOwner /\ [][NextTsOwner]_vars

InitSessions ==
    InitHost /\ InitLogIdle /\ InitOwnerIdle /\ InitSeq /\ InitEscIdle /\ InitInterceptIdle /\ InitPlainIdle

NextSessions == FillSeq

\* The session id runs: processes calling fill_seq() in any order, with any
\* log directory and buffer size.
SpecSessions == InitSessions /\ [][NextSessions]_vars

InitEscapes ==
    InitHost /\ InitLogIdle /\ InitOwnerIdle /\ InitSeqIdle /\ InitEsc /\ InitInterceptIdle /\ InitPlainIdle

NextEscapes ==
    \/ GetHostname
    \/ FillSeqIn(EscProc, EscDir)
    \/ FillUser
    \/ FillGroup
    \/ FillRunasUser
    \/ FillRunasGroup
    \/ FillHostname
    \/ FillCommand

\* The path escape runs: get_hostname(), then the generators in any order
\* in one process.
SpecEscapes == InitEscapes /\ [][NextEscapes]_vars

NextExpand == ExpandPath

\* The expansion runs: patterns expanded one after the other in one process.
SpecExpand == InitEscapes /\ [][NextExpand]_vars

InitInterceptRun ==
    InitHost /\ InitLogIdle /\ InitOwnerIdle /\ InitSeqIdle /\ InitEscIdle /\ InitIntercept
    /\ InitPlainIdle

NextIntercept == CbInterceptType \/ CbInterceptAllowSetid

\* The intercept runs: the two callbacks in any order, with any operator.
SpecIntercept == InitInterceptRun /\ [][NextIntercept]_vars

\* The user database of the handler runs: root alone, so that
\* cb_timestampowner() finds some owners and misses others.
InitHandlers ==
    /\ InitHost /\ InitLogIdle /\ InitSeqIdle /\ InitEscIdle /\ InitInterceptIdle
    /\ InitPlain
    /\ passwd = {r \in PwRecords : r.uid = 0}
    /\ ts_owner = timestamp_set_owner(0, 0)
    /\ lastOwner = NoOwnerOp

HostFamily == GetHostname \/ SetRemoteHost \/ NextDirective \/ CbFqdn

LogFamily == CbLogfile \/ CbSyslog \/ CbLogFormat \/ CbTtyTickets \/ CbUmask

PlainFamily ==
    \/ CbRunchroot
    \/ CbSyslogGoodpri
    \/ CbSyslogBadpri
    \/ CbSyslogMaxlen
    \/ CbLoglinelen
    \/ CbLogYear
    \/ CbLogHost
    \/ CbMailerpath
    \/ CbMailerflags
    \/ CbMailfrom
    \/ CbMailto
    \/ CbMailsub
    \/ CbLogInput
    \/ CbLogOutput

\* No handler of the family has run yet.
HostFresh == pc = "start"
LogFresh == lastcb.cb = "none"
OwnerFresh == lastOwner.cb = "none"
InterceptFresh == nintercept = 0
PlainFresh == lastPlain.cb = "none"

NextHandlers ==
    \/ LogFresh /\ OwnerFresh /\ InterceptFresh /\ PlainFresh /\ HostFamily
    \/ HostFresh /\ OwnerFresh /\ InterceptFresh /\ PlainFresh /\ LogFamily
    \/ HostFresh /\ LogFresh /\ InterceptFresh /\ PlainFresh /\ CbTimestampOwner
    \/ HostFresh /\ LogFresh /\ OwnerFresh /\ PlainFresh /\ NextIntercept
    \/ HostFresh /\ LogFresh /\ OwnerFresh /\ InterceptFresh /\ PlainFamily

\* The handler runs: every handler of callbacks.c.  The five families share
\* no variable, so what one family's handlers return does not depend on the
\* others; a run follows the directives of one family.
SpecHandlers == InitHandlers /\ [][NextHandlers]_vars

(***************************************************************************)
(* Properties.                                                             *)
(***************************************************************************)
\* The text behind a pointer of the current state.
Txt(p) == IF p = NULL THEN <<>> ELSE CStr(heap[p].str)

HasDot(s) == \E i \in 1..Len(s) : s[i] = "."

FirstDot(s) == CHOOSE i \in 1..Len(s) : s[i] = "." /\ \A j \in 1..(i - 1) : s[j] # "."

\* The short form of a host name: what precedes its first '.', or all of it.
ShortOf(s) == IF HasDot(s) THEN SubSeq(s, 1, FirstDot(s) - 1) ELSE s

UserBlocks == {user_ctx.host, user_ctx.shost} \ {NULL}
RunasBlocks == {runas_ctx.host, runas_ctx.shost} \ {NULL}

\* Allocated blocks no context points at.
Leaked == {b \in Blocks : heap[b].live /\ b \notin UserBlocks \cup RunasBlocks}

AfterHostname == pc \in {"hostname", "returned", "ready"}

\* cb_fqdn() has just returned.
FqdnReturned == pc = "returned" /\ last.op = "cb_fqdn"

\* ... from an invocation with the flag enabled.
FqdnRan == FqdnReturned /\ last.sd # "off"

\* C1: over get_hostname() followed by cb_fqdn() invocations no host or
\* shost block is freed twice and no allocated block is left unreachable.
C1_FreedExactlyOnce ==
    /\ "double_free" \notin heapErr
    /\ AfterHostname => Leaked = {}

\* C2: after get_hostname() and any number of cb_fqdn() calls the two
\* contexts' host storage is disjoint.
C2_ContextsDisjoint == AfterHostname => UserBlocks \cap RunasBlocks = {}

\* A long/short pair as resolve_host() and get_hostname() are to produce it:
\* the long name is the name given; with a '.', the short name is the text
\* before the first '.', in storage of its own; without, it is the long
\* name's storage.
PairOK(name, ltxt, stxt, lp, sp) ==
    /\ ltxt = name
    /\ IF HasDot(name) THEN stxt = SubSeq(name, 1, FirstDot(name) - 1) /\ sp # lp
       ELSE sp = lp

\* C3: every pair resolve_host() or get_hostname() produces is such a pair.
C3_ShortName ==
    /\ pc = "hostname" =>
          PairOK(last.name, Txt(user_ctx.host), Txt(user_ctx.shost),
                 user_ctx.host, user_ctx.shost)
    /\ \A i \in 1..Len(last.calls) :
          last.calls[i].rc = "ok" =>
              PairOK(last.calls[i].canon, last.calls[i].ltxt, last.calls[i].stxt,
                     last.calls[i].lp, last.calls[i].sp)

\* C3 witness: resolve_host() has produced a pair for a dotted name with a
\* non-empty short name.
C3_Witness ==
    /\ FqdnReturned
    /\ \E i \in 1..Len(last.calls) :
          /\ last.calls[i].rc = "ok"
          /\ HasDot(last.calls[i].canon)
          /\ last.calls[i].stxt # <<>>

\* C4: cb_fqdn() with the flag disabled returns true, resolves nothing and
\* leaves both contexts and their storage as they were.
C4_DisabledNoop ==
    (FqdnReturned /\ last.sd = "off") =>
        /\ last.ret = "true"
        /\ last.calls = <<>>
        /\ last.kept.user /\ last.kept.runas /\ last.kept.heap

C4_Witness == FqdnReturned /\ last.sd = "off" /\ last.ret = "true"

\* The user's host did not resolve and the fallback on the target's did.
FallbackTaken ==
    /\ FqdnRan
    /\ Len(last.calls) >= 2
    /\ last.calls[1].rc # "ok"
    /\ last.calls[2].rc = "ok"

\* Step 5 went through: the target's own resolution when remote, the
\* duplication of the user's pair when not.
Step5Succeeded ==
    IF last.remote THEN Len(last.calls) >= 2 /\ last.calls[Len(last.calls)].rc = "ok"
                        /\ last.calls[Len(last.calls)].who = "runas"
                        /\ \E k \in 1..(Len(last.calls) - 1) : last.calls[k].rc = "ok"
    ELSE last.dup = "ok"

\* C5 as stated: after a failed resolution of the invoking host and a
\* successful one of the target host, the invoking context's host and shost
\* read as the pair resolved for the target, and cb_fqdn() returned true.
C5_FallbackInstalledAndTrue ==
    FallbackTaken =>
        /\ Txt(user_ctx.host) = last.calls[2].canon
        /\ Txt(user_ctx.shost) = ShortOf(last.calls[2].canon)
        /\ last.ret = "true"

\* C5 amended: the invoking context's host and shost are the two strings
\* resolve_host() returned for the target host, which held the long/short
\* pair of the resolved name when it returned them, and cb_fqdn() returns
\* true exactly when step 5 goes through as well.
C5_FallbackInstalled ==
    FallbackTaken =>
        /\ user_ctx.host = last.calls[2].lp
        /\ user_ctx.shost = last.calls[2].sp
        /\ last.calls[2].ltxt = last.calls[2].canon
        /\ last.calls[2].stxt = ShortOf(last.calls[2].canon)
        /\ last.ret = "true" <=> Step5Succeeded

\* C5 witness: the fallback was taken and step 5 then failed.
C5_Witness == FallbackTaken /\ last.ret = "false" /\ Txt(user_ctx.host) = last.calls[2].canon

\* Both the resolution of the invoking host and the fallback failed.
BothFailed ==
    /\ FqdnRan
    /\ Len(last.calls) = 2
    /\ last.calls[1].rc # "ok"
    /\ last.calls[2].rc # "ok"

\* C6: when both resolutions fail cb_fqdn() returns false and nothing is
\* freed or replaced in either context.
C6_BothFailUnchanged ==
    BothFailed =>
        /\ last.ret = "false"
        /\ last.kept.user /\ last.kept.runas /\ last.kept.heap

C6_Witness == BothFailed /\ last.calls[2].rc = "EAI_MEMORY" /\ last.ret = "false"

\* The user stage resolved a name and the target's own resolution of step 5
\* then failed.
RemoteStepFailed ==
    /\ FqdnRan
    /\ last.remote
    /\ last.calls[Len(last.calls)].rc # "ok"
    /\ \E k \in 1..Len(last.calls) : last.calls[k].rc = "ok"

\* Not remote, and one of the two duplications got no memory.
DupStepFailed == FqdnRan /\ ~last.remote /\ last.dup \in {"no_lhost", "no_shost"}

FirstOk == CHOOSE k \in 1..Len(last.calls) :
              last.calls[k].rc = "ok" /\ \A j \in 1..(k - 1) : last.calls[j].rc # "ok"

\* C7: a failed step 5 makes one attempt only when remote, returns false
\* and leaves the target context's host and shost as they were: the
\* pointers and the strings they point at.
C7_Step5FailureKeepsTarget ==
    /\ RemoteStepFailed =>
          /\ Len(last.calls) = FirstOk + 1
          /\ last.ret = "false"
          /\ last.kept.runas /\ last.kept.runasText
    /\ DupStepFailed =>
          /\ last.ret = "false"
          /\ last.kept.runas /\ last.kept.runasText

\* C8 as stated: an enabled invocation that finds the two host names equal
\* makes exactly one name-service resolution call.
C8_OneResolution == (FqdnRan /\ last.same) => Len(last.calls) = 1

\* C8 amended: it makes one call when the invoking host resolves and two
\* (the fallback resolves the same name again) when it does not; step 5
\* makes none.
C8_OneOrTwoResolutions ==
    (FqdnRan /\ last.same) =>
        Len(last.calls) = IF last.calls[1].rc = "ok" THEN 1 ELSE 2

C8_Witness ==
    FqdnRan /\ last.same /\ Len(last.calls) = 2 /\ last.calls[2].rc = "ok"
    /\ last.ret = "true"

\* C9: after a successful invocation that found the two host names equal,
\* the target's host and shost read as the invoking context's, live in
\* blocks of their own, and alias each other exactly when the invoking
\* context's do.
C9_TargetIsIndependentCopy ==
    (FqdnRan /\ last.same /\ last.ret = "true") =>
        /\ \A p \in UserBlocks \cup RunasBlocks : heap[p].live
        /\ Txt(runas_ctx.host) = Txt(user_ctx.host)
        /\ Txt(runas_ctx.shost) = Txt(user_ctx.shost)
        /\ UserBlocks \cap RunasBlocks = {}
        /\ (runas_ctx.shost = runas_ctx.host) <=> (user_ctx.shost = user_ctx.host)

\* C10: the destination mask last passed to eventlog_set_type() has the
\* FILE bit exactly when a log file path is set and the SYSLOG bit exactly
\* when syslog is enabled.
C10_DestinationMask ==
    evlog_type_set =>
        /\ "EVLOG_FILE" \in evlog_type <=> def_logfile # LogNull
        /\ "EVLOG_SYSLOG" \in evlog_type <=> def_syslog # 0

\* C10 witness: file logging was enabled while syslog was enabled, and
\* both bits are there.
C10_Witness ==
    /\ lastcb.cb = "cb_logfile"
    /\ def_syslog # 0
    /\ evlog_type = {"EVLOG_FILE", "EVLOG_SYSLOG"}

\* cb_timestampowner() has just returned.
OwnerReturned == lastOwner.cb = "cb_timestampowner"

\* The value is '#<n>' with <n> a valid id.
OwnerParses == OwnerIsNumeric(lastOwner.user) /\ ~sudo_strtoid(Tail(lastOwner.user)).errstr

\* ... and the database has a record with that uid.
OwnerUidHit ==
    /\ OwnerParses
    /\ \E r \in passwd : r.uid = sudo_strtoid(Tail(lastOwner.user)).id

OwnerNameHit == \E r \in passwd : r.name = lastOwner.user

NameLookup == [fn |-> "sudo_getpwnam", arg |-> lastOwner.user]

NameLookedUp == \E i \in 1..Len(lastOwner.lookups) : lastOwner.lookups[i] = NameLookup

\* C11: a '#<n>' value with a record of uid <n> sets the owner from that
\* record and looks no name up; any other value is looked up by name, as a
\* whole, and only by name when it does not start with '#'; when that finds
\* nothing the user is reported unknown and the handler returns false.
C11_NumericBypassesName ==
    OwnerReturned =>
        /\ OwnerUidHit =>
              /\ ~NameLookedUp
              /\ lastOwner.ret
              /\ \E r \in passwd :
                    /\ r.uid = sudo_strtoid(Tail(lastOwner.user)).id
                    /\ ts_owner = [uid |-> r.uid, gid |-> r.gid]
        /\ ~OwnerUidHit => lastOwner.lookups[Len(lastOwner.lookups)] = NameLookup
        /\ ~OwnerIsNumeric(lastOwner.user) => lastOwner.lookups = <<NameLookup>>
        /\ (~OwnerUidHit /\ ~OwnerNameHit) => (lastOwner.warned /\ ~lastOwner.ret)

\* C11 witness: "#0" with a record of uid 0 and no user named "#0".
C11_Witness ==
    /\ OwnerReturned
    /\ lastOwner.user = <<"#", "0">>
    /\ OwnerUidHit /\ ~OwnerNameHit
    /\ lastOwner.ret

\* C12: a false return leaves the timestamp owner as it was; a true return
\* leaves it at the uid and gid of the record the value resolves to.
C12_OwnerOnlyOnSuccess ==
    OwnerReturned =>
        /\ ~lastOwner.ret => ts_owner = lastOwner.prev
        /\ lastOwner.ret =>
              \E r \in passwd :
                 /\ IF OwnerUidHit THEN r.uid = sudo_strtoid(Tail(lastOwner.user)).id
                    ELSE r.name = lastOwner.user
                 /\ ts_owner = [uid |-> r.uid, gid |-> r.gid]

\* C12 witness: an unknown user after the owner had been set to a user
\* other than root.
C12_Witness ==
    /\ OwnerReturned
    /\ ~lastOwner.ret
    /\ lastOwner.prev # timestamp_set_owner(0, 0)
    /\ ts_owner = lastOwner.prev

\* fill_seq() has just returned in some process.
SeqReturned == lastFill.gen = "seq"

\* ... having rendered an id.
SeqRendered == SeqReturned /\ lastFill.alloc # "failed"

\* The ids iolog_nextid() has handed to process p.
IssuedTo(p) == {i \in issued : i.by = p}

\* C13: once a process has an id, each later fill_seq() call in it renders
\* that id without calling iolog_nextid(); the allocator succeeds at most
\* once per process and the cached id never changes.
C13_IdCachedForLife ==
    /\ [](\A p \in Procs : Cardinality(IssuedTo(p)) <= 1)
    /\ []((SeqReturned /\ lastFill.had # NoSessid) =>
             /\ lastFill.alloc = "none"
             /\ lastFill.value = SeqPath(lastFill.had))
    /\ [][\A p \in Procs :
             sessid[p] # NoSessid =>
                 /\ sessid'[p] = sessid[p]
                 /\ nalloc'[p] = nalloc[p]]_vars

\* C13 witness: a call made in a process that already had its id.
C13_Witness ==
    /\ SeqReturned
    /\ lastFill.had # NoSessid
    /\ lastFill.strsize > 8
    /\ lastFill.buf = SeqPath(lastFill.had)

C15_RenderedIdIsOfDirectory ==
    SeqRendered =>
        /\ [dir |-> lastFill.dir, id |-> sessid[lastFill.p], by |-> lastFill.p]
              \in issued
        /\ \A i \in issued :
              (i.dir = lastFill.dir /\ i.id = sessid[lastFill.p]) => i.by = lastFill.p

\* C16: with room for it, fill_seq() writes the six characters of the id in
\* order, as three pairs joined by '/', and returns 8.
C16_ThreeSegments ==
    (SeqRendered /\ lastFill.strsize > 8) =>
        LET id == sessid[lastFill.p]
            buf == lastFill.buf
        IN  /\ Len(id) = 6
            /\ Len(buf) = 8
            /\ buf[1] = id[1] /\ buf[2] = id[2] /\ buf[3] = "/"
            /\ buf[4] = id[3] /\ buf[5] = id[4] /\ buf[6] = "/"
            /\ buf[7] = id[5] /\ buf[8] = id[6]
            /\ lastFill.ret = 8

\* C16 witness: the id "A1B2C3" comes out as "A1/B2/C3".
C16_Witness ==
    /\ SeqRendered
    /\ sessid[lastFill.p] = <<"A", "1", "B", "2", "C", "3">>
    /\ lastFill.buf = <<"A", "1", "/", "B", "2", "/", "C", "3">>
    /\ lastFill.ret = 8

\* A generator has just returned with a value to render.
FillRendered == lastFill.gen # "none" /\ lastFill.alloc # "failed"

\* The whole value is in the buffer.
FillFits == lastFill.wrote /\ lastFill.buf = lastFill.value

C19_RunasGroupPrecedence ==
    lastFill.gen = "runas_group" =>
        IF ~esc_ctx.runas_gr.null
        THEN lastFill.value = esc_ctx.runas_gr.name /\ lastFill.lookups = <<>>
        ELSE IF \E g \in group_db : g.gid = esc_ctx.runas_pw.gid
        THEN \E g \in group_db :
                g.gid = esc_ctx.runas_pw.gid /\ lastFill.value = g.name
        ELSE /\ lastFill.value[1] = "#"
             /\ \A i \in 2..Len(lastFill.value) : IsDigit(lastFill.value[i])
             /\ Decimal(Tail(lastFill.value)) = esc_ctx.runas_pw.gid

\* C19 witness: no group given and no entry for gid 100: "#100".
C19_Witness ==
    /\ lastFill.gen = "runas_group"
    /\ esc_ctx.runas_gr.null
    /\ lastFill.strsize > 4
    /\ lastFill.buf = <<"#", "1", "0", "0">>

\* The names of the seven generators.
KnownTokens ==
    {"seq", "user", "group", "runas_user", "runas_group", "hostname", "command"}

\* An expansion has just ended whose pattern has a marker with another name.
ExpandedUnknown ==
    /\ lastExpand.op = "expand"
    /\ \E i \in 1..Len(lastExpand.pattern) :
          /\ lastExpand.pattern[i].kind = "marker"
          /\ lastExpand.pattern[i].token \notin KnownTokens

Invoked(cb) == nintercept' = nintercept + 1 /\ lastIntercept'.cb = cb

\* An invocation with op == -1 changes neither the default nor the flag.
SentinelChangesNothing ==
    [][(nintercept' = nintercept + 1 /\ lastIntercept'.op = -1)
          => UNCHANGED <<def_intercept_allow_setid, user_ctx_flags>>]_vars

\* Once cb_intercept_allow_setid() ran with op != -1, the flag stays set.
ExplicitSetidSticks ==
    [](/\ lastIntercept.cb = "cb_intercept_allow_setid"
       /\ lastIntercept.op # -1
       => [](InterceptSetid(user_ctx_flags)))

\* With the flag set, no cb_intercept_type() call changes the default.
SetidShieldsDefault ==
    [][(InterceptSetid(user_ctx_flags) /\ Invoked("cb_intercept_type"))
          => def_intercept_allow_setid' = def_intercept_allow_setid]_vars

\* The default changes only by an explicit intercept_type of dso with the
\* flag not set, and such a call leaves it false.
DsoResetsWhileUnset ==
    [][/\ def_intercept_allow_setid' # def_intercept_allow_setid
          => /\ Invoked("cb_intercept_type")
             /\ lastIntercept'.op # -1
             /\ lastIntercept'.tuple = "dso"
             /\ ~InterceptSetid(user_ctx_flags)
             /\ def_intercept_allow_setid' = FALSE
       /\ (/\ Invoked("cb_intercept_type")
           /\ lastIntercept'.op # -1
           /\ lastIntercept'.tuple = "dso"
           /\ ~InterceptSetid(user_ctx_flags))
          => def_intercept_allow_setid' = FALSE]_vars

\* C20: over any sequence of cb_intercept_type() and
\* cb_intercept_allow_setid() invocations, an invocation with op == -1
\* changes neither def_intercept_allow_setid nor the USER_INTERCEPT_SETID
\* flag; once cb_intercept_allow_setid() was invoked with op != -1 the flag
\* stays set and no later cb_intercept_type() resets the default; an
\* explicit intercept_type of dso resets the default to false only while
\* the flag is not set.
C20_ExplicitSettingsOnly ==
    /\ SentinelChangesNothing
    /\ ExplicitSetidSticks
    /\ SetidShieldsDefault
    /\ DsoResetsWhileUnset

\* An explicit intercept_type of dso found the flag set by an earlier
\* explicit intercept_allow_setid and left the default true.
C20_Witness ==
    /\ lastIntercept.cb = "cb_intercept_type"
    /\ lastIntercept.op # -1
    /\ lastIntercept.tuple = "dso"
    /\ InterceptSetid(user_ctx_flags)
    /\ def_intercept_allow_setid
    /\ nintercept >= 2

\* fill_seq() has just returned after iolog_nextid() failed.
SeqAllocFailed == SeqReturned /\ lastFill.alloc = "failed"

HandlerReturns ==
    {[cb |-> lastcb.cb, ret |-> lastcb.ret],
     [cb |-> lastPlain.cb, ret |-> lastPlain.ret],
     [cb |-> lastIntercept.cb, ret |-> lastIntercept.ret],
     [cb |-> lastOwner.cb, ret |-> lastOwner.ret],
     [cb |-> IF FqdnReturned THEN "cb_fqdn" ELSE "none",
      ret |-> FqdnReturned => last.ret = "true"]}

\* C22: among the handlers of callbacks.c only cb_fqdn() and
\* cb_timestampowner() can return false; every other handler returns true
\* for every directive value and every operator code.
C22_OnlyTwoHandlersFail ==
    \A h \in HandlerReturns :
        ~h.ret => h.cb \in {"cb_fqdn", "cb_timestampowner"}

\* C22 witness: a handler other than the two has returned from a directive
\* the front end supplied (op == -1) after making its call.
C22_Witness ==
    /\ lastPlain.cb = "cb_log_host"
    /\ lastPlain.op = -1
    /\ lastPlain.ret
    /\ collab_calls = <<CallFlag("eventlog_set_omit_hostname", TRUE)>>

\* cb_fqdn() has returned false.
FqdnFailed == FqdnReturned /\ last.ret = "false"

\* cb_timestampowner() has returned false.
OwnerFailed == lastOwner.cb = "cb_timestampowner" /\ ~lastOwner.ret

====
